---- MODULE Spec2Model ----
(***************************************************************************)
(* provideDefer (src/src/index.ts): the defer scheduler.  One invocation   *)
(* runs the main operation, which registers deferred actions through       *)
(* defer; the engine then drains them in reverse order and resolves with   *)
(* the main value, the main error or an AggregateError.  Actions           *)
(* registered with alsoOnExit are also bound to the process 'exit' and     *)
(* 'beforeExit' events.                                                    *)
(***************************************************************************)
EXTENDS Integers, Sequences, FiniteSets, TLC

\* ------------------------------------------------------------------ bounds

\* The most deferred actions one invocation registers.
MaxDefers == 2

\* The most deferred actions two overlapping invocations register together.
MaxOverlap == 2

\* The invocations of provideDefer the model knows; Spec calls the first one only.
Invocations == {1, 2}

\* ------------------------------------------------------------ input values

\* What is passed to defer: a synchronous function (when invoked it returns or
\* throws), an asynchronous function (it suspends, and settles later), or a promise
\* that already exists.
Kinds == {"sync", "async", "promise"}

DeferOptions == [noThrow : BOOLEAN, noWait : BOOLEAN, alsoOnExit : BOOLEAN]

\* The values the main operation may return.  "null" is mainResult's initial value.
MainValues == {"v1", "v2"}
NoValue == "null"

\* Thrown values.  The main operation throws an Error or a value that is no Error;
\* deferred action number r fails with its own Error.
NoError == [origin |-> "null", reg |-> 0, isError |-> FALSE]
MainErrors == {[origin |-> "main", reg |-> 0, isError |-> b] : b \in BOOLEAN}
DeferredError(r) == [origin |-> "deferred", reg |-> r, isError |-> TRUE]

\* e.message of a thrown value, and String(e).
MessageOf(e) ==
  IF ~e.isError THEN "undefined"
  ELSE IF e.origin = "main" THEN "Main error" ELSE "Deferred error"
StringOf(e) ==
  IF ~e.isError THEN "main failure"
  ELSE IF e.origin = "main" THEN "Error: Main error" ELSE "Error: Deferred error"

\* ------------------------------------------------------------------- state

VARIABLES
  proc,                 \* the host process: "running" or "exited"
  exitListeners,        \* process listeners of 'exit', in registration order
  beforeExitListeners,  \* process listeners of 'beforeExit', in registration order
  pc,                   \* per invocation: "idle", "main", "drain", "await", "settled"
  deferreds,            \* per invocation: the array of registered items
  registered,           \* per invocation: what was passed to defer, in call order
  called,               \* per invocation: the registrations whose cb has fired
  status,               \* per invocation, per registration: the action's promise
  handled,              \* per invocation: registrations whose promise has a rejection handler
  started,              \* per invocation: the registrations in the order they were invoked
  idx,                  \* per invocation: the position of the drain loop
  mainResult,           \* per invocation: {value, error, hasError}
  errors,               \* per invocation: the errors collected by the drain
  result,               \* per invocation: the settlement of the returned promise
  drainLen              \* per invocation: the registrations when the drain began (-1 before)

hostVars == <<proc, exitListeners, beforeExitListeners>>
actionVars == <<called, status, started>>
engineVars == <<pc, idx, mainResult, errors, result, drainLen>>
vars == <<proc, exitListeners, beforeExitListeners, pc, deferreds, registered, called, status,
          handled, started, idx, mainResult, errors, result, drainLen>>

\* ----------------------------------------------------------------- helpers

RECURSIVE Reverse(_)
WrongReverse(s) == s
\* Array.prototype.reverse
Reverse(s) == IF s = <<>> THEN <<>> ELSE Append(Reverse(Tail(s)), Head(s))

removeListenerNone(ls, l) == ls
RECURSIVE removeListener(_, _)
\* process.removeListener(event, cb): drops the listener cb of one registration
removeListener(ls, l) ==
  IF ls = <<>> THEN <<>>
  ELSE IF Head(ls) = l THEN Tail(ls)
  ELSE <<Head(ls)>> \o removeListener(Tail(ls), l)

\* The settlement of the returned promise.
Pending == [state |-> "pending", value |-> NoValue, aggregate |-> FALSE,
            error |-> NoError, errors |-> <<>>,
            message |-> [main |-> "", sep |-> "", count |-> 0, tail |-> ""]]
Resolved(v) == [Pending EXCEPT !.state = "resolved", !.value = v]
\* throw mainResult.error
Rejected(e) == [Pending EXCEPT !.state = "rejected", !.error = e]
\* throw new AggregateError(errs, msg)
AggregateError(errs, msg) ==
  [Pending EXCEPT !.state = "rejected", !.aggregate = TRUE, !.errors = errs, !.message = msg]

\* `${errors.length} deferred error(s).`
DeferredMessage(n) == [main |-> "", sep |-> "", count |-> n, tail |-> " deferred error(s)."]
\* mainError instanceof Error ? mainError.message : String(mainError)
mainErrorMessage(e) == IF e.isError THEN MessageOf(e) ELSE StringOf(e)
\* `${mainErrorMessage} and ${errors.length} deferred error(s).`
CombinedMessage(e, n) ==
  [main |-> mainErrorMessage(e), sep |-> " and ", count |-> n, tail |-> " deferred error(s)."]

\* The part of the state a deferred action's invocation touches.
World ==
  [status |-> status, called |-> called, started |-> started,
   exitListeners |-> exitListeners, beforeExitListeners |-> beforeExitListeners]

executeFunctionToPromiseEager(kind, throws) == IF throws THEN "rejected" ELSE "fulfilled"
\* executeFunctionToPromise(fn): fn is invoked now; a synchronous throw becomes a
\* rejected promise, an asynchronous function leaves a pending one.  `throws` says
\* whether this invocation of a synchronous function throws.
executeFunctionToPromise(kind, throws) ==
  CASE kind = "sync" -> IF throws THEN "rejected" ELSE "fulfilled"
    [] kind = "async" -> "pending"

deferredToPromiseLazy(w, p, r, kind, throws) == w
\* deferredToPromise(d): a function is invoked, a promise is passed through.
deferredToPromise(w, p, r, kind, throws) ==
  IF kind = "promise" THEN w
  ELSE [w EXCEPT !.status[p][r] = executeFunctionToPromise(kind, throws),
                 !.started[p] = Append(@, r)]

cbUnguarded(w, l, throws) ==
  deferredToPromise(
    [w EXCEPT !.called[l.inv] = @ \cup {l.reg},
              !.beforeExitListeners = removeListener(@, l),
              !.exitListeners = removeListener(@, l)],
    l.inv, l.reg, l.kind, throws)
cbSharedGuard(w, l, throws) ==
  IF l.reg \in w.called[l.inv] THEN w
  ELSE deferredToPromise(
         [w EXCEPT !.called = [q \in Invocations |-> @[q] \cup {l.reg}],
                   !.beforeExitListeners = removeListener(@, l),
                   !.exitListeners = removeListener(@, l)],
         l.inv, l.reg, l.kind, throws)
\* The listener cb of an alsoOnExit registration.
cb(w, l, throws) ==
  IF l.reg \in w.called[l.inv] THEN w
  ELSE deferredToPromise(
         [w EXCEPT !.called[l.inv] = @ \cup {l.reg},
                   !.beforeExitListeners = removeListener(@, l),
                   !.exitListeners = removeListener(@, l)],
         l.inv, l.reg, l.kind, throws)

RECURSIVE emit(_, _, _)
RECURSIVE emitReversed(_, _, _)
emitReversed(w, ls, T) ==
  IF ls = <<>> THEN w ELSE cb(emitReversed(w, Tail(ls), T), Head(ls), Head(ls) \in T)
emitFirstOnly(w, ls, T) == IF ls = <<>> THEN w ELSE cb(w, Head(ls), Head(ls) \in T)
\* process.emit(event): the listeners present when the event fires, in order; T
\* holds the listeners whose synchronous function throws.
emit(w, ls, T) ==
  IF ls = <<>> THEN w ELSE emit(cb(w, Head(ls), Head(ls) \in T), Tail(ls), T)

\* The listeners whose function may throw synchronously.
SyncListeners(ls) == {ls[i] : i \in {j \in 1..Len(ls) : ls[j].kind = "sync"}}

SetWorld(w) ==
  /\ status' = w.status
  /\ called' = w.called
  /\ started' = w.started
  /\ exitListeners' = w.exitListeners
  /\ beforeExitListeners' = w.beforeExitListeners

\* -------------------------------------------------------------------- Init

Init ==
  /\ proc = "running"
  /\ exitListeners = <<>>
  /\ beforeExitListeners = <<>>
  /\ pc = [p \in Invocations |-> IF p = 1 THEN "main" ELSE "idle"]
  /\ deferreds = [p \in Invocations |-> <<>>]
  /\ registered = [p \in Invocations |-> <<>>]
  /\ called = [p \in Invocations |-> {}]
  /\ status = [p \in Invocations |-> <<>>]
  /\ handled = [p \in Invocations |-> {}]
  /\ started = [p \in Invocations |-> <<>>]
  /\ idx = [p \in Invocations |-> 0]
  /\ mainResult = [p \in Invocations |-> [value |-> NoValue, error |-> NoError, hasError |-> FALSE]]
  /\ errors = [p \in Invocations |-> <<>>]
  /\ result = [p \in Invocations |-> Pending]
  /\ drainLen = [p \in Invocations |-> -1]

\* ----------------------------------------------------------------- actions

\* defer(d, options), called with a deferrable of kind k
defer(p, k, o) ==
  LET r == Len(deferreds[p]) + 1
      l == [inv |-> p, reg |-> r, kind |-> k]
  IN /\ deferreds' = [deferreds EXCEPT ![p] = Append(@, [reg |-> r, kind |-> k, options |-> o])]
     /\ registered' = [registered EXCEPT ![p] = Append(@, [reg |-> r, kind |-> k, options |-> o])]
     /\ status' = [status EXCEPT ![p] = Append(@, IF k = "promise" THEN "pending" ELSE "idle")]
     /\ IF o.alsoOnExit
          THEN /\ exitListeners' = Append(exitListeners, l)
               /\ beforeExitListeners' = Append(beforeExitListeners, l)
          ELSE UNCHANGED <<exitListeners, beforeExitListeners>>
     /\ UNCHANGED <<proc, called, handled, started, engineVars>>

\* The main operation calls defer.
MainDefers(p) ==
  /\ proc = "running"
  /\ pc[p] = "main"
  /\ Len(deferreds[p]) < MaxDefers
  /\ \E k \in Kinds, o \in DeferOptions : defer(p, k, o)

\* The main operation settles: the engine records it and begins the drain.
MainSettles(p) ==
  /\ proc = "running"
  /\ pc[p] = "main"
  /\ \/ \E v \in MainValues :
          mainResult' = [mainResult EXCEPT ![p] = [value |-> v, error |-> NoError, hasError |-> FALSE]]
     \/ \E e \in MainErrors :
          mainResult' = [mainResult EXCEPT ![p] = [value |-> NoValue, error |-> e, hasError |-> TRUE]]
  /\ errors' = [errors EXCEPT ![p] = <<>>]
  /\ deferreds' = [deferreds EXCEPT ![p] = Reverse(@)]
  /\ drainLen' = [drainLen EXCEPT ![p] = Len(deferreds[p])]
  /\ idx' = [idx EXCEPT ![p] = 1]
  /\ pc' = [pc EXCEPT ![p] = "drain"]
  /\ UNCHANGED <<hostVars, registered, actionVars, handled, result>>

CollectAlways(errs, item, st) ==
  IF st = "rejected" THEN Append(errs, DeferredError(item.reg)) ELSE errs
CollectWrongFlag(errs, item, st) ==
  IF st = "rejected" /\ ~item.options.noWait THEN Append(errs, DeferredError(item.reg)) ELSE errs
CollectInFront(errs, item, st) ==
  IF st = "rejected" /\ ~item.options.noThrow THEN <<DeferredError(item.reg)>> \o errs ELSE errs
\* What the drain keeps of a settled promise: with noThrow the promise is
\* deferredToPromise(d).catch(() => {}) and never rejects, and the catch block
\* pushes only if (!options?.noThrow).
Collect(errs, item, st) ==
  IF st = "rejected" /\ ~item.options.noThrow THEN Append(errs, DeferredError(item.reg)) ELSE errs

\* Whether the loop attaches a rejection handler to the action's own promise.
AttachesHandler(item) ==
  /\ ~item.options.alsoOnExit
  /\ item.options.noThrow \/ ~item.options.noWait

ContinuesAlways(item) == TRUE
ContinuesNever(item) == FALSE
\* if (options?.noWait) continue
Continues(item) == item.options.noWait

\* One iteration of the drain loop, up to its await.
DrainStep(p) ==
  /\ proc = "running"
  /\ pc[p] = "drain"
  /\ idx[p] <= Len(deferreds[p])
  /\ \E throws \in IF deferreds[p][idx[p]].kind = "sync" THEN BOOLEAN ELSE {FALSE} :
     LET item == deferreds[p][idx[p]]
         l == [inv |-> p, reg |-> item.reg, kind |-> item.kind]
         w == IF item.options.alsoOnExit THEN cb(World, l, throws)
              ELSE deferredToPromise(World, p, item.reg, item.kind, throws)
         \* the promise the loop holds: cb's own promise for an alsoOnExit item
         st == IF item.options.alsoOnExit THEN "fulfilled" ELSE w.status[p][item.reg]
     IN /\ SetWorld(w)
        /\ handled' = [handled EXCEPT ![p] = IF AttachesHandler(item) THEN @ \cup {item.reg} ELSE @]
        /\ IF Continues(item)
             THEN /\ idx' = [idx EXCEPT ![p] = @ + 1]
                  /\ UNCHANGED <<pc, errors>>
             ELSE IF st = "pending"
               THEN /\ pc' = [pc EXCEPT ![p] = "await"]
                    /\ UNCHANGED <<idx, errors>>
               ELSE /\ errors' = [errors EXCEPT ![p] = Collect(@, item, st)]
                    /\ idx' = [idx EXCEPT ![p] = @ + 1]
                    /\ UNCHANGED pc
  /\ UNCHANGED <<proc, deferreds, registered, mainResult, result, drainLen>>

\* The awaited promise has settled: the loop resumes.
DrainResume(p) ==
  /\ proc = "running"
  /\ pc[p] = "await"
  /\ LET item == deferreds[p][idx[p]]
         st == status[p][item.reg]
     IN /\ st # "pending"
        /\ errors' = [errors EXCEPT ![p] = Collect(@, item, st)]
  /\ idx' = [idx EXCEPT ![p] = @ + 1]
  /\ pc' = [pc EXCEPT ![p] = "drain"]
  /\ UNCHANGED <<hostVars, deferreds, registered, actionVars, handled, mainResult, result, drainLen>>

ResolutionCountsMain(mr, errs) ==
  IF Len(errs) > 0
    THEN IF mr.hasError
           THEN AggregateError(<<mr.error>> \o errs, CombinedMessage(mr.error, Len(errs) + 1))
           ELSE AggregateError(errs, DeferredMessage(Len(errs)))
    ELSE IF mr.hasError THEN Rejected(mr.error) ELSE Resolved(mr.value)
ResolutionWrapsMain(mr, errs) ==
  IF mr.hasError
    THEN AggregateError(<<mr.error>> \o errs, CombinedMessage(mr.error, Len(errs)))
    ELSE IF Len(errs) > 0 THEN AggregateError(errs, DeferredMessage(Len(errs)))
         ELSE Resolved(mr.value)
\* What provideDefer returns or throws after the loop.
Resolution(mr, errs) ==
  IF Len(errs) > 0
    THEN IF mr.hasError
           THEN AggregateError(<<mr.error>> \o errs, CombinedMessage(mr.error, Len(errs)))
           ELSE AggregateError(errs, DeferredMessage(Len(errs)))
    ELSE IF mr.hasError THEN Rejected(mr.error) ELSE Resolved(mr.value)

\* The loop is over: provideDefer settles.
Resolve(p) ==
  /\ proc = "running"
  /\ pc[p] = "drain"
  /\ idx[p] > Len(deferreds[p])
  /\ result' = [result EXCEPT ![p] = Resolution(mainResult[p], errors[p])]
  /\ pc' = [pc EXCEPT ![p] = "settled"]
  /\ UNCHANGED <<hostVars, deferreds, registered, actionVars, handled, idx, mainResult, errors,
                 drainLen>>

\* The pending promise of registration r (of an asynchronous function that was
\* invoked, or one passed to defer) settles.
Settles(p, r) ==
  /\ proc = "running"
  /\ r <= Len(status[p])
  /\ status[p][r] = "pending"
  /\ \E st \in {"fulfilled", "rejected"} : status' = [status EXCEPT ![p][r] = st]
  /\ UNCHANGED <<hostVars, pc, deferreds, registered, called, handled, started, idx,
                 mainResult, errors, result, drainLen>>

ActionSettles(p) == \E r \in 1..MaxDefers : Settles(p, r)

\* The event loop has run dry while the invocation is suspended: 'beforeExit'.
BeforeExit ==
  /\ proc = "running"
  /\ beforeExitListeners # <<>>
  /\ \A p \in Invocations : pc[p] # "drain"
  /\ \E T \in SUBSET SyncListeners(beforeExitListeners) :
       SetWorld(emit(World, beforeExitListeners, T))
  /\ UNCHANGED <<proc, pc, deferreds, registered, handled, idx, mainResult, errors, result,
                 drainLen>>

\* process.exit(): 'exit' is emitted and the process ends.
Exit ==
  /\ proc = "running"
  /\ \E T \in SUBSET SyncListeners(exitListeners) :
       SetWorld(emit(World, exitListeners, T))
  /\ proc' = "exited"
  /\ UNCHANGED <<pc, deferreds, registered, handled, idx, mainResult, errors, result,
                 drainLen>>

Engine(p) ==
  \/ MainDefers(p)
  \/ MainSettles(p)
  \/ DrainStep(p)
  \/ DrainResume(p)
  \/ Resolve(p)
  \/ ActionSettles(p)

\* A run of one invocation in which the process is not terminated.
Next ==
  \/ Engine(1)
  \/ BeforeExit

Spec == Init /\ [][Next]_vars

\* The same, where the process may be terminated at any point.
NextExit ==
  \/ Engine(1)
  \/ BeforeExit
  \/ Exit

SpecExit == Init /\ [][NextExit]_vars

\* defer is called after the drain began: by a deferred function the loop has
\* invoked, or by any holder of defer while the loop is suspended on an await.  The
\* item is pushed on the array the for..of loop is iterating.
DrainDefers(p) ==
  /\ proc = "running"
  /\ pc[p] = "await" \/ (pc[p] = "drain" /\ idx[p] > 1)
  /\ Len(deferreds[p]) < MaxDefers
  /\ \E k \in Kinds, o \in DeferOptions : defer(p, k, o)

\* A run without process termination in which defer is also called during the drain.
NextLate ==
  \/ Engine(1)
  \/ BeforeExit
  \/ DrainDefers(1)

SpecLate == Init /\ [][NextLate]_vars

\* provideDefer(fn) is called again while the first invocation is under way.
provideDefer(p) ==
  /\ proc = "running"
  /\ pc[p] = "idle"
  /\ pc' = [pc EXCEPT ![p] = "main"]
  /\ UNCHANGED <<hostVars, deferreds, registered, actionVars, handled, idx, mainResult, errors,
                 result, drainLen>>

\* The main operation of one of two overlapping invocations calls defer.
OverlapDefers(p) ==
  /\ Len(registered[1]) + Len(registered[2]) < MaxOverlap
  /\ MainDefers(p)

\* Two invocations whose main operations and drains interleave.
NextTwo ==
  \/ provideDefer(2)
  \/ \E p \in Invocations :
       \/ OverlapDefers(p)
       \/ MainSettles(p)
       \/ DrainStep(p)
       \/ DrainResume(p)
       \/ Resolve(p)
       \/ ActionSettles(p)
  \/ BeforeExit

SpecTwo == Init /\ [][NextTwo]_vars

\* ---------------------------------------- the first version of provideDefer

\* The first version's defer takes a deferrable and no options.
NoOptions == [noThrow |-> FALSE, noWait |-> FALSE, alsoOnExit |-> FALSE]

\* The promise returned by func(defer) has not settled.
MainPending(p) == ~mainResult[p].hasError /\ mainResult[p].value = NoValue

\* defer(deferrable): deferrables.push(deferrable)
deferLegacy(p, k) ==
  LET r == Len(deferreds[p]) + 1
  IN /\ deferreds' = [deferreds EXCEPT ![p] = Append(@, [reg |-> r, kind |-> k, options |-> NoOptions])]
     /\ registered' = [registered EXCEPT ![p] = Append(@, [reg |-> r, kind |-> k, options |-> NoOptions])]
     /\ status' = [status EXCEPT ![p] = Append(@, IF k = "promise" THEN "pending" ELSE "idle")]
     /\ UNCHANGED <<hostVars, called, handled, started, engineVars>>

\* func calls defer: in its synchronous part, or later, after a suspension point,
\* for as long as it has not settled.
LegacyMainDefers(p) ==
  /\ proc = "running"
  /\ pc[p] = "main" \/ (pc[p] \in {"await", "returned", "settled"} /\ MainPending(p))
  /\ Len(deferreds[p]) < MaxDefers
  /\ \E k \in Kinds : deferLegacy(p, k)

RECURSIVE mapDeferrables(_, _, _)
\* deferrables.map(async (d) => { try { return typeof d === 'function' ? d() : d }
\* catch (error) { console.error(...) } }): each function is invoked in turn; the
\* catch block sees a synchronous throw only (T holds the functions that throw).
mapDeferrables(w, ds, T) ==
  IF ds = <<>> THEN w
  ELSE LET d == Head(ds)
           throws == d.reg \in T
           w1 == IF d.kind = "promise" THEN w
                 ELSE [w EXCEPT !.started = Append(@, d.reg),
                                !.status[d.reg] =
                                  IF d.kind = "async" THEN "pending"
                                  ELSE IF throws THEN "rejected" ELSE "fulfilled",
                                !.handled = IF throws THEN @ \cup {d.reg} ELSE @]
       IN mapDeferrables(w1, Tail(ds), T)

\* try { return func(defer) } finally { ... }: func has returned its promise,
\* settled already or suspended, and the finally block maps the deferrables
\* pushed so far and awaits Promise.all of them.
LegacyFinally(p) ==
  /\ proc = "running"
  /\ pc[p] = "main"
  /\ \/ UNCHANGED mainResult
     \/ \E v \in MainValues :
          mainResult' = [mainResult EXCEPT ![p] = [value |-> v, error |-> NoError, hasError |-> FALSE]]
     \/ \E e \in MainErrors :
          mainResult' = [mainResult EXCEPT ![p] = [value |-> NoValue, error |-> e, hasError |-> TRUE]]
  /\ \E T \in SUBSET {r \in 1..Len(deferreds[p]) : deferreds[p][r].kind = "sync"} :
       LET w == mapDeferrables([status |-> status[p], started |-> started[p],
                                handled |-> handled[p]], deferreds[p], T)
       IN /\ status' = [status EXCEPT ![p] = w.status]
          /\ started' = [started EXCEPT ![p] = w.started]
          /\ handled' = [handled EXCEPT ![p] = w.handled]
  /\ drainLen' = [drainLen EXCEPT ![p] = Len(deferreds[p])]
  /\ pc' = [pc EXCEPT ![p] = "await"]
  /\ UNCHANGED <<hostVars, deferreds, registered, called, idx, errors, result>>

\* The promise returned by func settles after a suspension point.
LegacyMainSettles(p) ==
  /\ proc = "running"
  /\ pc[p] \in {"await", "returned", "settled"}
  /\ MainPending(p)
  /\ \/ \E v \in MainValues :
          mainResult' = [mainResult EXCEPT ![p] = [value |-> v, error |-> NoError, hasError |-> FALSE]]
     \/ \E e \in MainErrors :
          mainResult' = [mainResult EXCEPT ![p] = [value |-> NoValue, error |-> e, hasError |-> TRUE]]
  /\ UNCHANGED <<hostVars, pc, deferreds, registered, actionVars, handled, idx, errors, result,
                 drainLen>>

\* The mapped promises that are rejected: the catch block did not see the failure.
Uncaught(p) == {r \in 1..drainLen[p] : status[p][r] = "rejected" /\ r \notin handled[p]}

\* await Promise.all(...) resumes: it throws the first rejection, which replaces
\* the pending return, or it returns once every mapped promise is fulfilled.
LegacyAwaitAll(p) ==
  /\ proc = "running"
  /\ pc[p] = "await"
  /\ \/ \E r \in Uncaught(p) :
          /\ result' = [result EXCEPT ![p] = Rejected(DeferredError(r))]
          /\ pc' = [pc EXCEPT ![p] = "settled"]
     \/ /\ Uncaught(p) = {}
        /\ \A r \in 1..drainLen[p] : status[p][r] \in {"fulfilled", "rejected"}
        /\ pc' = [pc EXCEPT ![p] = "returned"]
        /\ UNCHANGED result
  /\ UNCHANGED <<hostVars, deferreds, registered, actionVars, handled, idx, mainResult, errors,
                 drainLen>>

\* return func(defer) completes: the returned promise follows func's promise.
LegacyReturn(p) ==
  /\ proc = "running"
  /\ pc[p] = "returned"
  /\ ~MainPending(p)
  /\ result' = [result EXCEPT ![p] = IF mainResult[p].hasError THEN Rejected(mainResult[p].error)
                                      ELSE Resolved(mainResult[p].value)]
  /\ pc' = [pc EXCEPT ![p] = "settled"]
  /\ UNCHANGED <<hostVars, deferreds, registered, actionVars, handled, idx, mainResult, errors,
                 drainLen>>

NextLegacy ==
  \/ LegacyMainDefers(1)
  \/ LegacyFinally(1)
  \/ LegacyMainSettles(1)
  \/ LegacyAwaitAll(1)
  \/ LegacyReturn(1)
  \/ ActionSettles(1)

SpecLegacy == Init /\ [][NextLegacy]_vars

\* ------------------------------------------------------------------ fairness

\* A run in which the process is not terminated, the main operation settles, the
\* engine's continuations are scheduled, and every promise of an action registered
\* without noWait settles.  A noWait action may stay pending for ever.
AwaitedSettles(p, r) ==
  /\ Settles(p, r)
  /\ ~registered[p][r].options.noWait

Fairness ==
  /\ WF_vars(MainSettles(1))
  /\ WF_vars(DrainStep(1))
  /\ WF_vars(DrainResume(1))
  /\ WF_vars(Resolve(1))
  /\ \A r \in 1..MaxDefers : WF_vars(AwaitedSettles(1, r))

LiveSpec == Init /\ [][Next]_vars /\ Fairness

\* ------------------------------------------------- vocabulary of the claims

Settled(p) == pc[p] = "settled"

\* The registrations of invocation p so far, and the item of registration r.
Regs(p) == 1..Len(registered[p])
ItemOf(p, r) == registered[p][r]
Opt(p, r) == ItemOf(p, r).options
IsFunction(p, r) == ItemOf(p, r).kind # "promise"
HasRun(p, r) == \E i \in 1..Len(started[p]) : started[p][i] = r
HasSettled(p, r) == status[p][r] \in {"fulfilled", "rejected"}
Failed(p, r) == status[p][r] = "rejected"

\* Registered with neither noWait nor alsoOnExit: the drain awaits the action itself.
Awaited(p, r) == ~Opt(p, r).noWait /\ ~Opt(p, r).alsoOnExit

\* n, n-1, ..., 1: reverse registration order.
Descending(n) == [i \in 1..n |-> n - i + 1]

IsPrefix(s, t) == Len(s) <= Len(t) /\ \A i \in 1..Len(s) : s[i] = t[i]

\* The failures that survive filtering (awaited, not noThrow), latest registration first.
RECURSIVE SurvivingFrom(_, _)
SurvivingFrom(p, r) ==
  IF r = 0 THEN <<>>
  ELSE (IF Awaited(p, r) /\ ~Opt(p, r).noThrow /\ Failed(p, r)
          THEN <<DeferredError(r)>> ELSE <<>>) \o SurvivingFrom(p, r - 1)
Surviving(p) == SurvivingFrom(p, Len(registered[p]))

\* Every failure comes from a noThrow or a noWait action.
OnlyFilteredFailures(p) ==
  \A r \in Regs(p) : Failed(p, r) => Opt(p, r).noThrow \/ Opt(p, r).noWait

AllFunctionsRan(p) == \A r \in Regs(p) : IsFunction(p, r) => HasRun(p, r)

\* How many times the function of registration r has been invoked.
Runs(p, r) == Cardinality({i \in 1..Len(started[p]) : started[p][i] = r})

\* ------------------------------------------------------------------ claims

\* C1: when every registered action is a function with neither noWait nor
\* alsoOnExit and none has failed, nothing has run while the main operation is
\* unsettled, the actions that have run are the last registered ones in reverse
\* registration order, and all of them have run once provideDefer settles.
PlainRun(p) ==
  \A r \in Regs(p) : IsFunction(p, r) /\ Awaited(p, r) /\ ~Failed(p, r)
C1_ReverseOrder ==
  \A p \in Invocations :
    PlainRun(p) =>
      /\ pc[p] = "main" => started[p] = <<>>
      /\ IsPrefix(started[p], Descending(Len(registered[p])))
      /\ Settled(p) => started[p] = Descending(Len(registered[p]))
C1_Witness ==
  /\ Settled(1) /\ PlainRun(1) /\ Len(registered[1]) >= 2
  /\ started[1] = Descending(Len(registered[1]))

\* C2: while an action registered without noWait and without alsoOnExit is
\* unsettled, the drain has not moved past it and no function registered before it
\* (later in drain order) has been run by the drain.
C2_AwaitBlocksNext ==
  \A p \in Invocations : \A r \in Regs(p) :
    (pc[p] # "main" /\ Awaited(p, r) /\ ~HasSettled(p, r)) =>
      /\ idx[p] <= Len(deferreds[p]) /\ deferreds[p][idx[p]].reg >= r
      /\ ~Settled(p)
      /\ \A q \in Regs(p) : (q < r /\ ~Opt(p, q).alsoOnExit) => ~HasRun(p, q)
C2_Witness ==
  /\ pc[1] = "await" /\ Len(registered[1]) >= 2
  /\ \E r \in Regs(1) :
       /\ r > 1 /\ Awaited(1, r) /\ ItemOf(1, r).kind = "async" /\ status[1][r] = "pending"
       /\ Opt(1, r).noThrow
       /\ IsFunction(1, r - 1) /\ ~HasRun(1, r - 1)

\* C3: when the main operation succeeded with V and every failure comes from a
\* noThrow or noWait action, provideDefer resolves to V, and not before every
\* registered function has been run.
C3_ResolvesToMainValue ==
  \A p \in Invocations :
    (Settled(p) /\ ~mainResult[p].hasError /\ OnlyFilteredFailures(p)) =>
      /\ result[p].state = "resolved"
      /\ result[p].value = mainResult[p].value
      /\ result[p].value \in MainValues
      /\ AllFunctionsRan(p)
C3_Witness ==
  /\ Settled(1) /\ result[1] = Resolved("v2")
  /\ \E r \in Regs(1) : Failed(1, r) /\ Opt(1, r).noThrow /\ ~Opt(1, r).noWait
  /\ \E r \in Regs(1) : ItemOf(1, r).kind = "async" /\ HasSettled(1, r)

\* C4: when the main operation succeeded and at least one awaited action
\* registered without noThrow failed, provideDefer rejects with an AggregateError
\* holding exactly those failures, latest registration first, with the message
\* "<k> deferred error(s)." and without the main value.
C4_DeferredAggregate ==
  \A p \in Invocations :
    (Settled(p) /\ ~mainResult[p].hasError /\ Surviving(p) # <<>>) =>
      /\ result[p].state = "rejected"
      /\ result[p].aggregate
      /\ result[p].errors = Surviving(p)
      /\ result[p].message =
           [main |-> "", sep |-> "", count |-> Len(Surviving(p)), tail |-> " deferred error(s)."]
      /\ result[p].value = NoValue
C4_Witness ==
  /\ Settled(1) /\ ~mainResult[1].hasError
  /\ result[1].errors = <<DeferredError(2), DeferredError(1)>>

\* C5 as stated: when the main operation failed with M and at least one awaited
\* action registered without noThrow failed, provideDefer rejects with an
\* AggregateError whose errors are M followed by those failures, latest
\* registration first, and whose message is "<M.message> and <k> deferred error(s).".
C5_Stated ==
  \A p \in Invocations :
    (Settled(p) /\ mainResult[p].hasError /\ Surviving(p) # <<>>) =>
      /\ result[p].state = "rejected"
      /\ result[p].aggregate
      /\ result[p].errors = <<mainResult[p].error>> \o Surviving(p)
      /\ result[p].message =
           [main |-> MessageOf(mainResult[p].error), sep |-> " and ",
            count |-> Len(Surviving(p)), tail |-> " deferred error(s)."]

\* C5 (amended): the same, where the message starts with M.message when M is an
\* Error and with String(M) when it is not; k counts the deferred failures only.
C5_CombinedAggregate ==
  \A p \in Invocations :
    (Settled(p) /\ mainResult[p].hasError /\ Surviving(p) # <<>>) =>
      /\ result[p].state = "rejected"
      /\ result[p].aggregate
      /\ mainResult[p].error \in MainErrors
      /\ result[p].errors = <<mainResult[p].error>> \o Surviving(p)
      /\ result[p].message =
           [main |-> IF mainResult[p].error.isError
                       THEN MessageOf(mainResult[p].error)
                       ELSE StringOf(mainResult[p].error),
            sep |-> " and ",
            count |-> Len(Surviving(p)), tail |-> " deferred error(s)."]
C5_Witness ==
  /\ Settled(1) /\ mainResult[1].hasError /\ ~mainResult[1].error.isError
  /\ result[1].errors = <<mainResult[1].error, DeferredError(2), DeferredError(1)>>
  /\ result[1].message.count = 2

\* C6: when the main operation failed with M and every deferred failure comes from
\* a noThrow or noWait action, provideDefer rejects with M itself, not with an
\* aggregate, and not before every registered function has been run; nothing is
\* surfaced while the invocation is unsettled.
C6_MainErrorUnwrapped ==
  \A p \in Invocations :
    /\ ~Settled(p) => result[p] = Pending
    /\ (Settled(p) /\ mainResult[p].hasError /\ OnlyFilteredFailures(p)) =>
         /\ result[p].state = "rejected"
         /\ ~result[p].aggregate
         /\ result[p].error = mainResult[p].error
         /\ result[p].error \in MainErrors
         /\ result[p].errors = <<>>
         /\ AllFunctionsRan(p)
C6_Witness ==
  /\ Settled(1) /\ mainResult[1].hasError /\ result[1] = Rejected(mainResult[1].error)
  /\ \E r \in Regs(1) : Failed(1, r) /\ Opt(1, r).noThrow /\ ~Opt(1, r).noWait
  /\ Len(started[1]) >= 2

\* C7: the failure of a noThrow action is in no errors list and is not counted in
\* the message; when the main operation succeeded and only noThrow actions failed
\* provideDefer resolves with the main value; the failures of awaited actions
\* without noThrow and the main error are reported all the same.
InSeq(e, s) == \E i \in 1..Len(s) : s[i] = e
DeferredIn(s) == {i \in 1..Len(s) : s[i].origin = "deferred"}
C7_NoThrowIgnored ==
  \A p \in Invocations :
    /\ \A r \in Regs(p) :
         Opt(p, r).noThrow =>
           ~InSeq(DeferredError(r), errors[p]) /\ ~InSeq(DeferredError(r), result[p].errors)
    /\ Settled(p) =>
         /\ result[p].aggregate =>
              result[p].message.count = Cardinality(DeferredIn(result[p].errors))
         /\ (~mainResult[p].hasError /\ \A r \in Regs(p) : Failed(p, r) => Opt(p, r).noThrow)
              => result[p] = Resolved(mainResult[p].value)
         /\ \A r \in Regs(p) :
              (Awaited(p, r) /\ ~Opt(p, r).noThrow /\ Failed(p, r))
                => InSeq(DeferredError(r), result[p].errors)
         /\ mainResult[p].hasError =>
              IF result[p].aggregate THEN result[p].errors[1] = mainResult[p].error
              ELSE result[p].error = mainResult[p].error
C7_Witness ==
  /\ Settled(1) /\ result[1].aggregate /\ mainResult[1].hasError
  /\ \E r, q \in Regs(1) :
       /\ Opt(1, r).noThrow /\ ~Opt(1, r).noWait /\ ~Opt(1, r).alsoOnExit /\ Failed(1, r)
       /\ result[1].errors = <<mainResult[1].error, DeferredError(q)>>

\* C8: in a run without process termination in which the main operation and every
\* action registered without noWait settle, provideDefer eventually settles, also
\* when a noWait action never settles; by then every noWait function has been run,
\* and the functions the drain runs itself have run latest registration first.
DrainRuns(p) ==
  LET ByDrain(r) == ~Opt(p, r).alsoOnExit IN SelectSeq(started[p], ByDrain)
C8_SettlesDespiteNoWait ==
  /\ <>Settled(1)
  /\ [](Settled(1) =>
          /\ \A r \in Regs(1) : (Opt(1, r).noWait /\ IsFunction(1, r)) => HasRun(1, r)
          /\ \A i, j \in 1..Len(DrainRuns(1)) : i < j => DrainRuns(1)[i] > DrainRuns(1)[j])
C8_Witness ==
  /\ Settled(1) /\ Len(registered[1]) >= 2
  /\ \E r \in Regs(1) :
       /\ r > 1 /\ Opt(1, r).noWait /\ ~Opt(1, r).alsoOnExit
       /\ ItemOf(1, r).kind = "async" /\ status[1][r] = "pending"
       /\ ItemOf(1, r - 1).kind = "async" /\ Awaited(1, r - 1) /\ HasSettled(1, r - 1)

\* C9: the failure of a noWait action is in no errors list, and whenever
\* provideDefer rejects, the main operation failed or an action registered without
\* noWait and without noThrow failed.
C9_NoWaitUnobserved ==
  \A p \in Invocations :
    /\ \A r \in Regs(p) :
         Opt(p, r).noWait =>
           ~InSeq(DeferredError(r), errors[p]) /\ ~InSeq(DeferredError(r), result[p].errors)
    /\ (Settled(p) /\ result[p].state = "rejected") =>
         \/ mainResult[p].hasError
         \/ \E r \in Regs(p) : ~Opt(p, r).noWait /\ ~Opt(p, r).noThrow /\ Failed(p, r)
C9_Witness ==
  /\ Settled(1) /\ result[1].state = "resolved"
  /\ \E r, q \in Regs(1) :
       /\ Opt(1, r).noWait /\ ~Opt(1, r).noThrow /\ ItemOf(1, r).kind = "async" /\ Failed(1, r)
       /\ Opt(1, q).noWait /\ ~Opt(1, q).noThrow /\ ItemOf(1, q).kind = "sync" /\ Failed(1, q)

\* C10 as stated: whenever provideDefer has settled, every registered function has
\* been run and every action registered without noWait has settled.
C10_Stated ==
  \A p \in Invocations :
    Settled(p) =>
      \A r \in Regs(p) :
        /\ IsFunction(p, r) => HasRun(p, r)
        /\ ~Opt(p, r).noWait => HasSettled(p, r)

\* C11: no function passed to defer is ever invoked twice, whatever its options and
\* whether or not the process is terminated; once provideDefer has settled (the
\* process was not terminated before), every function passed to defer has been
\* invoked exactly once.
C11_ExactlyOnce ==
  \A p \in Invocations : \A r \in Regs(p) :
    /\ Runs(p, r) <= 1
    /\ ~IsFunction(p, r) => Runs(p, r) = 0
    /\ (Settled(p) /\ IsFunction(p, r)) => Runs(p, r) = 1
C11_Witness ==
  /\ Settled(1) /\ proc = "running" /\ Len(registered[1]) = 2
  /\ Opt(1, 1) = [noThrow |-> TRUE, noWait |-> TRUE, alsoOnExit |-> TRUE]
  /\ Opt(1, 2) = [noThrow |-> FALSE, noWait |-> FALSE, alsoOnExit |-> FALSE]
  /\ Runs(1, 1) = 1 /\ Runs(1, 2) = 1

\* C12: a function registered with alsoOnExit that has been invoked (by the drain
\* or by an 'exit' or 'beforeExit' listener) is invoked by no later step, be it the
\* drain's visit of its entry or another signal; its guard is set from then on.
C12_AtMostOnceAcrossPaths ==
  [][\A p \in Invocations : \A r \in Regs(p) :
       (Opt(p, r).alsoOnExit /\ (Runs(p, r) >= 1 \/ r \in called[p])) =>
         /\ Runs(p, r)' = Runs(p, r)
         /\ r \in called[p]'
         /\ Runs(p, r) <= 1]_vars
\* A listener ran the function while the main operation was suspended, and the
\* drain has since visited its entry.
C12_Witness ==
  /\ Settled(1) /\ Len(registered[1]) = 2
  /\ Opt(1, 1).alsoOnExit /\ ~Opt(1, 2).alsoOnExit
  /\ IsFunction(1, 1) /\ IsFunction(1, 2)
  /\ started[1] = <<1, 2>>

\* C13: when the process was terminated by 'exit' while the main operation was
\* running, every synchronous function registered with alsoOnExit before that
\* point has been invoked once and has completed, no action registered without
\* alsoOnExit has been invoked, the main operation has not been recorded as
\* settled, provideDefer's promise is pending, and nothing happens any more (no
\* further registration, no further run, no result).
ExitedInMain(p) == proc = "exited" /\ pc[p] = "main"
C13_ExitInMain ==
  /\ [](\A p \in Invocations :
          ExitedInMain(p) =>
            /\ \A r \in Regs(p) :
                 /\ (Opt(p, r).alsoOnExit /\ ItemOf(p, r).kind = "sync") =>
                      Runs(p, r) = 1 /\ HasSettled(p, r)
                 /\ ~Opt(p, r).alsoOnExit => Runs(p, r) = 0 /\ ~HasRun(p, r)
            /\ result[p] = Pending
            /\ ~mainResult[p].hasError /\ mainResult[p].value = NoValue
            /\ errors[p] = <<>> /\ idx[p] = 0)
  /\ [][proc = "exited" => vars' = vars]_vars
C13_Witness ==
  /\ ExitedInMain(1) /\ Len(registered[1]) = 2
  /\ Opt(1, 1).alsoOnExit /\ Opt(1, 2).alsoOnExit
  /\ ItemOf(1, 1).kind = "sync" /\ ItemOf(1, 2).kind = "sync"
  /\ status[1] = <<"rejected", "fulfilled">>
  /\ started[1] = <<1, 2>>

\* C14: when 'exit' terminates the process while the main operation is running, an
\* asynchronous function registered with alsoOnExit and not yet fired is invoked
\* by its listener and left at its first suspension point (its promise pending);
\* once the process has exited no promise settles any more.
C14_AsyncCutAtSuspension ==
  [][\A p \in Invocations : \A r \in Regs(p) :
       (Opt(p, r).alsoOnExit /\ ItemOf(p, r).kind = "async") =>
         /\ (proc = "running" /\ proc' = "exited" /\ pc[p] = "main" /\ r \notin called[p]) =>
              /\ Runs(p, r) = 0
              /\ Runs(p, r)' = 1
              /\ status'[p][r] = "pending"
              /\ r \in called'[p]
         /\ proc = "exited" => status'[p][r] = status[p][r]]_vars
C14_Witness ==
  /\ ExitedInMain(1) /\ Len(registered[1]) = 2
  /\ Opt(1, 1).alsoOnExit /\ ItemOf(1, 1).kind = "sync"
  /\ Opt(1, 2).alsoOnExit /\ ItemOf(1, 2).kind = "async"
  /\ status[1] = <<"fulfilled", "pending">>
  /\ started[1] = <<1, 2>>

\* C15 as stated: the drain invokes only functions that were registered when it
\* began; a function passed to defer after that is never invoked by the drain (an
\* alsoOnExit one could still be invoked by its listener).
C15_Stated ==
  \A p \in Invocations :
    drainLen[p] >= 0 =>
      \A r \in Regs(p) : (r > drainLen[p] /\ ~Opt(p, r).alsoOnExit) => ~HasRun(p, r)

\* C16: with two invocations under way at once, each settled invocation has
\* invoked every function registered through its own defer exactly once (and
\* nothing else), the functions its drain runs itself in its own reverse
\* registration order, and its outcome is the one its own main result and its own
\* actions' failures determine.
OwnOutcome(p) ==
  LET mr == mainResult[p]
      errs == Surviving(p)
  IN IF errs # <<>>
       THEN IF mr.hasError
              THEN AggregateError(<<mr.error>> \o errs, CombinedMessage(mr.error, Len(errs)))
              ELSE AggregateError(errs, DeferredMessage(Len(errs)))
       ELSE IF mr.hasError THEN Rejected(mr.error) ELSE Resolved(mr.value)
C16_Isolation ==
  \A p \in Invocations :
    /\ \A i \in 1..Len(started[p]) : started[p][i] \in Regs(p) /\ IsFunction(p, started[p][i])
    /\ pc[p] = "idle" => registered[p] = <<>> /\ result[p] = Pending
    /\ Settled(p) =>
         /\ \A r \in Regs(p) : IsFunction(p, r) => Runs(p, r) = 1
         /\ \A i, j \in 1..Len(DrainRuns(p)) : i < j => DrainRuns(p)[i] > DrainRuns(p)[j]
         /\ result[p] = OwnOutcome(p)
\* The second invocation has settled with its own value while the first, whose
\* action failed, is still suspended in its drain.
C16_Witness ==
  /\ pc[1] = "await" /\ Settled(2)
  /\ Len(registered[1]) = 1 /\ Len(registered[2]) = 1
  /\ Opt(1, 1).alsoOnExit = FALSE /\ Failed(1, 1)
  /\ Opt(2, 1).alsoOnExit /\ IsFunction(2, 1) /\ Runs(2, 1) = 1
  /\ result[2] = Resolved("v1")

\* C17: an alsoOnExit registration has its listener on both events until it fires
\* and on neither from then on, whichever path fired it; once provideDefer has
\* settled, no listener of that invocation is attached to 'exit' or 'beforeExit'.
ListenersOf(ls, p) == {ls[i].reg : i \in {j \in 1..Len(ls) : ls[j].inv = p}}
Unfired(p) == {r \in Regs(p) : Opt(p, r).alsoOnExit /\ r \notin called[p]}
C17_ListenersReleased ==
  \A p \in Invocations :
    /\ ListenersOf(exitListeners, p) = Unfired(p)
    /\ ListenersOf(beforeExitListeners, p) = Unfired(p)
    /\ \A r \in Unfired(p) : ~HasRun(p, r)
    /\ Settled(p) =>
         ListenersOf(exitListeners, p) = {} /\ ListenersOf(beforeExitListeners, p) = {}
\* One action was fired by a 'beforeExit' listener during the main operation, the
\* other by the drain.
C17_Witness ==
  /\ Settled(1) /\ Len(registered[1]) = 2
  /\ Opt(1, 1).alsoOnExit /\ Opt(1, 2).alsoOnExit
  /\ IsFunction(1, 1) /\ IsFunction(1, 2)
  /\ started[1] = <<1, 2>>
  /\ exitListeners = <<>> /\ beforeExitListeners = <<>>

\* C18 as stated: an alsoOnExit action is drained like a plain one.  While one
\* registered without noWait is unsettled the drain has not moved past it and
\* provideDefer has not settled, and when provideDefer has settled, the failure of
\* one registered without noThrow and without noWait is among the reported errors.
C18_Stated ==
  \A p \in Invocations : \A r \in Regs(p) :
    Opt(p, r).alsoOnExit =>
      /\ (pc[p] # "main" /\ ~Opt(p, r).noWait /\ ~HasSettled(p, r)) =>
           /\ ~Settled(p)
           /\ idx[p] <= Len(deferreds[p]) /\ deferreds[p][idx[p]].reg >= r
      /\ (Settled(p) /\ ~Opt(p, r).noWait /\ ~Opt(p, r).noThrow /\ Failed(p, r)) =>
           /\ result[p].aggregate
           /\ InSeq(DeferredError(r), result[p].errors)

\* C19 as stated: the failure of a function registered with noThrow is in no
\* errors list, and the rejected promise of that function has a rejection handler,
\* whichever path invoked it.
C19_Stated ==
  \A p \in Invocations : \A r \in Regs(p) :
    (Opt(p, r).noThrow /\ IsFunction(p, r) /\ Failed(p, r)) =>
      /\ ~InSeq(DeferredError(r), errors[p])
      /\ ~InSeq(DeferredError(r), result[p].errors)
      /\ r \in handled[p]

\* The README's example: a synchronous function with noThrow, then an
\* asynchronous function with noWait, then further statements of the main operation.
ExampleRun(p) ==
  /\ Len(registered[p]) = 2
  /\ ItemOf(p, 1).kind = "sync"
  /\ Opt(p, 1) = [noThrow |-> TRUE, noWait |-> FALSE, alsoOnExit |-> FALSE]
  /\ ItemOf(p, 2).kind = "async"
  /\ Opt(p, 2) = [noThrow |-> FALSE, noWait |-> TRUE, alsoOnExit |-> FALSE]

MainOutcome(p) ==
  IF mainResult[p].hasError THEN Rejected(mainResult[p].error) ELSE Resolved(mainResult[p].value)

\* C22 as stated (first version of provideDefer): whatever fails among the
\* deferrables, the returned promise settles only when the main function's promise
\* has settled, and exactly as it did.
C22_Stated ==
  \A p \in Invocations :
    Settled(p) => ~MainPending(p) /\ result[p] = MainOutcome(p)

\* C23 as stated (first version of provideDefer): a function passed to defer is
\* invoked only once the main function's promise has settled, and when the
\* returned promise has settled every function passed to defer has been invoked
\* and every deferrable has settled.
C23_Stated ==
  \A p \in Invocations : \A r \in Regs(p) :
    /\ HasRun(p, r) => ~MainPending(p)
    /\ Settled(p) =>
         /\ IsFunction(p, r) => HasRun(p, r)
         /\ HasSettled(p, r)

\* C24 as stated: a synchronous throw of a deferred function does not stop the
\* drain (every function is still invoked before provideDefer settles, and each
\* synchronous function leaves a settled promise); a promise passed to defer is
\* never invoked; unless noWait is set the drain does not move past it nor settle
\* while it is unsettled; and its rejection is handled per its options: ignored
\* with noThrow (a handler is attached), reported in the AggregateError otherwise.
C24_Stated ==
  \A p \in Invocations : \A r \in Regs(p) :
    /\ (ItemOf(p, r).kind = "sync" /\ HasRun(p, r)) => HasSettled(p, r)
    /\ (Settled(p) /\ IsFunction(p, r)) => HasRun(p, r)
    /\ ~IsFunction(p, r) =>
         /\ ~HasRun(p, r)
         /\ (pc[p] # "main" /\ ~Opt(p, r).noWait /\ ~HasSettled(p, r)) =>
              /\ ~Settled(p)
              /\ idx[p] <= Len(deferreds[p]) /\ deferreds[p][idx[p]].reg >= r
         /\ (Settled(p) /\ Failed(p, r)) =>
              /\ Opt(p, r).noThrow =>
                   r \in handled[p] /\ ~InSeq(DeferredError(r), result[p].errors)
              /\ (~Opt(p, r).noThrow /\ ~Opt(p, r).noWait) =>
                   InSeq(DeferredError(r), result[p].errors)

\* C25: a step in which a signal fires listeners (the drain loop does not move)
\* fires every unfired alsoOnExit registration of each invocation and invokes
\* their functions in registration order, first registered first; no step
\* invokes a function whose guard is already set, so the drain skips them later.
RECURSIVE Ascending(_, _, _)
Ascending(p, U, r) ==
  IF r > Len(registered[p]) THEN <<>>
  ELSE (IF r \in U /\ IsFunction(p, r) THEN <<r>> ELSE <<>>) \o Ascending(p, U, r + 1)
SignalStep == pc' = pc /\ idx' = idx /\ called' # called
C25_ListenersInRegistrationOrder ==
  [][\A p \in Invocations :
       /\ SignalStep =>
            /\ called'[p] = called[p] \cup Unfired(p)
            /\ started'[p] = started[p] \o Ascending(p, Unfired(p), 1)
       /\ \A r \in called[p] : Runs(p, r)' = Runs(p, r) /\ Runs(p, r) <= 1]_vars
\* Two asynchronous alsoOnExit functions were fired by a signal during the main
\* operation, and the process went on: the drain has visited both since.
C25_Witness ==
  /\ Settled(1) /\ Len(registered[1]) = 2
  /\ Opt(1, 1).alsoOnExit /\ Opt(1, 2).alsoOnExit
  /\ ItemOf(1, 1).kind = "async" /\ ItemOf(1, 2).kind = "async"
  /\ started[1] = <<1, 2>> /\ called[1] = {1, 2}

====
